---- MODULE Spec2Model ----
(***************************************************************************)
(* ServiceConfigManager (service_config_manager.py): the three-tier        *)
(* resolution  defaults < global ("*") < dataset-specific  of a service's  *)
(* configuration, fetched from the project's binaries dataset and cached   *)
(* in memory per dataset id.                                               *)
(*                                                                         *)
(* A dict is a function whose DOMAIN is its key set.  A value that may be  *)
(* missing (the return value of a call that raised) is a sequence of       *)
(* length 0 or 1.                                                          *)
(***************************************************************************)
EXTENDS Integers, FiniteSets, Sequences, TLC

VARIABLES
    service_name,   \* self.service_name
    defaults,       \* self.defaults
    cache,          \* self._config_cache : dataset_id -> resolved dict
    store,          \* metadata of the binaries dataset (the external store)
    fetches,        \* number of dl.datasets.get calls made so far
    last,           \* the most recent call: name, argument, outcome, return value
    prev,           \* the call before it (name, argument, outcome, entry cached before it)
    first           \* per id: value of the first successful resolution since the
                    \* last clear_cache(id) / clear_cache() / reload_config(id)

vars == <<service_name, defaults, cache, store, fetches, last, prev, first>>

-----------------------------------------------------------------------------
(* Bounds and input domains *)

\* cap on the fetch counter
MaxFetches == 3

GLOBAL_KEY == "*"

\* Python's None, as a dataset_id argument and as a dict key
None == "None"

\* dataset ids passed as strings; "" is the empty string
StrIds == {"ds1", "ds2", ""}

\* every dataset_id argument: a string, or None (argument omitted)
ArgIds == StrIds \cup {None}

ServiceNames == {"webm-converter", "video-thumbnail"}

Names == {"quality", "format"}

Values == {10, 20}

EmptyDict == [k \in {} |-> 0]

\* every flat settings dict over Names and Values
Dicts == UNION {[S -> Values] : S \in SUBSET Names}

\* keys a service section may hold
SectionKeys == {GLOBAL_KEY, "ds1", ""}

\* every service section: each key absent or bound to a settings dict
Sections == UNION {[K -> Dicts] : K \in SUBSET SectionKeys}

\* section of the other service, never the one resolved
OtherSection == (GLOBAL_KEY :> ("quality" :> 20 @@ "format" :> 20))

\* metadata holding  service_configs : {service: section}
Metadata(sections) == ("service_configs" :> sections)

\* every metadata dict: no service_configs key, no section for the service,
\* or a section for the service
AllStores ==
    {EmptyDict, Metadata(EmptyDict), Metadata("video-thumbnail" :> OtherSection)}
    \cup {Metadata("webm-converter" :> s @@ "video-thumbnail" :> OtherSection) : s \in Sections}

\* settings of the tiers in the stateful specification
GlobalTier == ("quality" :> 10 @@ "format" :> 10)
EntityTier == ("quality" :> 20)
EmptyIdTier == ("format" :> 20)

Opt(k, present, d) == IF present THEN (k :> d) ELSE EmptyDict

\* the sections the store moves between: every presence pattern of the tiers
SmallSections ==
    {Opt(GLOBAL_KEY, g, GlobalTier) @@ Opt("ds1", e, EntityTier) @@ Opt("", z, EmptyIdTier) :
        g \in BOOLEAN, e \in BOOLEAN, z \in BOOLEAN}

SmallStores ==
    {EmptyDict, Metadata("video-thumbnail" :> OtherSection)}
    \cup {Metadata("webm-converter" :> s @@ "video-thumbnail" :> OtherSection) : s \in SmallSections}

-----------------------------------------------------------------------------
(* Python primitives *)

\* d.get(k, {})
Get(d, k) == IF k \in DOMAIN d THEN d[k] ELSE EmptyDict

\* d.update(over), as a value
Update(d, over) ==
    [k \in DOMAIN d \cup DOMAIN over |-> IF k \in DOMAIN over THEN over[k] ELSE d[k]]

\* del d[k]
Del(d, k) == [j \in DOMAIN d \ {k} |-> d[j]]

\* d[k] = v
Put(d, k, v) == [j \in DOMAIN d \cup {k} |-> IF j = k THEN v ELSE d[j]]

\* truth value of an Optional[str]: None and "" are falsy
Truthy(dataset_id) == dataset_id # None /\ dataset_id # ""

-----------------------------------------------------------------------------
(* The methods, as functions of the cache they start from *)

\* a resolution that returns the bare defaults for a dataset without entry
_resolve_config_skip_global(service_config, dataset_id) ==
    IF Truthy(dataset_id) /\ dataset_id \in DOMAIN service_config
    THEN Update(Update(defaults, Get(service_config, GLOBAL_KEY)),
                Get(service_config, dataset_id))
    ELSE defaults

\* a resolution that returns the bare defaults when no dataset is given
_resolve_config_needs_id(service_config, dataset_id) ==
    IF ~Truthy(dataset_id) THEN defaults
    ELSE IF dataset_id \in DOMAIN service_config
    THEN Update(Update(defaults, Get(service_config, GLOBAL_KEY)),
                Get(service_config, dataset_id))
    ELSE Update(defaults, Get(service_config, GLOBAL_KEY))

\* _resolve_config: defaults, then the "*" entry, then the dataset's entry
_resolve_config(service_config, dataset_id) ==
    LET global_config == Get(service_config, GLOBAL_KEY)
        resolved == Update(defaults, global_config)
    IN  IF Truthy(dataset_id) /\ dataset_id \in DOMAIN service_config
        THEN Update(resolved, Get(service_config, dataset_id))
        ELSE resolved

\* outcome of a call: the cache it leaves, how it ended, what it returned,
\* how many store fetches it made,
\* and which errors the store raised during it
Outcome(c, how, ret, n, errs) ==
    [cache |-> c, outcome |-> how, result |-> ret, fetched |-> n, store_errors |-> errs]

\* a load that never looks into the cache
_load_dataset_config_uncached(c, dataset_id, found) ==
    IF ~found
    THEN Outcome(c, "NotFoundError", <<>>, 1, <<"NotFoundError">>)
    ELSE LET dataset_config ==
                 _resolve_config(Get(Get(store, "service_configs"), service_name), dataset_id)
         IN  Outcome(Put(c, dataset_id, dataset_config), "ok", <<dataset_config>>, 1, <<>>)

\* a load that caches the defaults before the error of a failed fetch leaves it
_load_dataset_config_caches_failure(c, dataset_id, found) ==
    IF dataset_id \in DOMAIN c
    THEN Outcome(c, "ok", <<c[dataset_id]>>, 0, <<>>)
    ELSE IF ~found
    THEN Outcome(Put(c, dataset_id, defaults), "NotFoundError", <<>>, 1, <<"NotFoundError">>)
    ELSE LET dataset_config ==
                 _resolve_config(Get(Get(store, "service_configs"), service_name), dataset_id)
         IN  Outcome(Put(c, dataset_id, dataset_config), "ok", <<dataset_config>>, 1, <<>>)

\* a load that catches the store's error and falls back to the defaults
_load_dataset_config_fallback(c, dataset_id, found) ==
    IF dataset_id \in DOMAIN c
    THEN Outcome(c, "ok", <<c[dataset_id]>>, 0, <<>>)
    ELSE IF ~found
    THEN Outcome(c, "ok", <<defaults>>, 1, <<"NotFoundError">>)
    ELSE LET dataset_config ==
                 _resolve_config(Get(Get(store, "service_configs"), service_name), dataset_id)
         IN  Outcome(Put(c, dataset_id, dataset_config), "ok", <<dataset_config>>, 1, <<>>)

\* a load that replaces the whole cache by the entry it resolved
_load_dataset_config_evicts(c, dataset_id, found) ==
    IF dataset_id \in DOMAIN c
    THEN Outcome(c, "ok", <<c[dataset_id]>>, 0, <<>>)
    ELSE IF ~found
    THEN Outcome(c, "NotFoundError", <<>>, 1, <<"NotFoundError">>)
    ELSE LET dataset_config ==
                 _resolve_config(Get(Get(store, "service_configs"), service_name), dataset_id)
         IN  Outcome(Put(EmptyDict, dataset_id, dataset_config), "ok", <<dataset_config>>, 1, <<>>)

\* _load_dataset_config from cache c; found tells whether dl.datasets.get
\* resolves the id (it raises NotFoundError otherwise)
_load_dataset_config(c, dataset_id, found) ==
    IF dataset_id \in DOMAIN c
    THEN Outcome(c, "ok", <<c[dataset_id]>>, 0, <<>>)
    ELSE IF ~found
    THEN Outcome(c, "NotFoundError", <<>>, 1, <<"NotFoundError">>)
    ELSE LET full_config == Get(store, "service_configs")
             service_config == Get(full_config, service_name)
             dataset_config == _resolve_config(service_config, dataset_id)
         IN  Outcome(Put(c, dataset_id, dataset_config), "ok", <<dataset_config>>, 1, <<>>)

\* a get_config that drops the dataset's entry and loads it anew
get_config_refetch(c, dataset_id, found) ==
    _load_dataset_config(Del(c, dataset_id), dataset_id, found)

get_config(c, dataset_id, found) == _load_dataset_config(c, dataset_id, found)

\* a clear_cache that forgets to delete the dataset's entry
clear_cache_keeps(c, dataset_id) ==
    IF Truthy(dataset_id) THEN c ELSE EmptyDict

clear_cache(c, dataset_id) ==
    IF Truthy(dataset_id)
    THEN IF dataset_id \in DOMAIN c THEN Del(c, dataset_id) ELSE c
    ELSE EmptyDict

reload_config(c, dataset_id, found) ==
    _load_dataset_config(clear_cache(c, dataset_id), dataset_id, found)

\* a merge written into self.defaults itself (resolved = self.defaults)
defaults_after_in_place(r) ==
    IF r.fetched = 1 /\ r.outcome = "ok" THEN r.result[1] ELSE defaults

\* self.defaults after a call with outcome r: the merge starts from
\* dict(self.defaults), a copy, so its updates never reach self.defaults
defaults_after(r) == defaults

-----------------------------------------------------------------------------
(* Calls *)

Call(op, dataset_id, r) ==
    [op |-> op, id |-> dataset_id, outcome |-> r.outcome, result |-> r.result,
     fetched |-> r.fetched, store_errors |-> r.store_errors,
     had |-> dataset_id \in DOMAIN cache]

Prev == [op |-> last.op, id |-> last.id, outcome |-> last.outcome, had |-> last.had]

GetConfig(dataset_id) ==
    \E found \in BOOLEAN :
        LET r == get_config(cache, dataset_id, found) IN
        /\ fetches + r.fetched <= MaxFetches
        /\ cache' = r.cache
        /\ fetches' = fetches + r.fetched
        /\ last' = Call("get_config", dataset_id, r)
        /\ prev' = Prev
        /\ first' = IF r.outcome = "ok" /\ dataset_id \notin DOMAIN first
                    THEN Put(first, dataset_id, r.result[1]) ELSE first
        /\ defaults' = defaults_after(r)
        /\ UNCHANGED <<service_name, store>>

ClearCache(dataset_id) ==
    /\ cache' = clear_cache(cache, dataset_id)
    /\ last' = Call("clear_cache", dataset_id, Outcome(cache', "ok", <<>>, 0, <<>>))
    /\ prev' = Prev
    /\ first' = IF dataset_id = None THEN EmptyDict
                ELSE IF dataset_id \in DOMAIN first THEN Del(first, dataset_id)
                ELSE first
    /\ UNCHANGED <<service_name, defaults, store, fetches>>

ReloadConfig(dataset_id) ==
    \E found \in BOOLEAN :
        LET r == reload_config(cache, dataset_id, found) IN
        /\ fetches + r.fetched <= MaxFetches
        /\ cache' = r.cache
        /\ fetches' = fetches + r.fetched
        /\ last' = Call("reload_config", dataset_id, r)
        /\ prev' = Prev
        /\ first' = IF r.outcome = "ok" THEN Put(first, dataset_id, r.result[1])
                    ELSE IF dataset_id \in DOMAIN first THEN Del(first, dataset_id)
                    ELSE first
        /\ defaults' = defaults_after(r)
        /\ UNCHANGED <<service_name, store>>

\* the store's content is edited from outside
SetStore(s) ==
    /\ s # store
    /\ store' = s
    /\ UNCHANGED <<service_name, defaults, cache, fetches, last, prev, first>>

-----------------------------------------------------------------------------
(* Specifications *)

NoCall == [op |-> "init", id |-> None, outcome |-> "ok", result |-> <<>>,
           fetched |-> 0, store_errors |-> <<>>, had |-> FALSE]

\* __init__(service_name, defaults): defaults or {}; given is <<>> for None
Construct(name, given) ==
    /\ service_name = name
    /\ defaults = IF given = <<>> \/ given[1] = EmptyDict THEN EmptyDict ELSE given[1]
    /\ cache = EmptyDict
    /\ fetches = 0
    /\ last = NoCall
    /\ prev = [op |-> "init", id |-> None, outcome |-> "ok", had |-> FALSE]
    /\ first = EmptyDict

Init ==
    /\ \E given \in {<<>>, <<("quality" :> 20 @@ "format" :> 20)>>} :
          Construct("webm-converter", given)
    /\ store \in SmallStores

Next ==
    \/ \E dataset_id \in ArgIds : GetConfig(dataset_id)
    \/ \E dataset_id \in ArgIds : ClearCache(dataset_id)
    \/ \E dataset_id \in StrIds : ReloadConfig(dataset_id)
    \/ \E s \in SmallStores : SetStore(s)

Spec == Init /\ [][Next]_vars

\* One call on a fresh manager, for every defaults, section and id
InitMerge ==
    /\ \E name \in ServiceNames, given \in {<<>>} \cup {<<d>> : d \in Dicts} :
          Construct(name, given)
    /\ store \in AllStores

FirstCall ==
    /\ last.op = "init"
    /\ \E dataset_id \in ArgIds : GetConfig(dataset_id)

NextMerge == FirstCall

SpecMerge == InitMerge /\ [][NextMerge]_vars

\* One call on a fresh manager whose settings hold nested mappings
SubKeys == {"width", "height"}

SubValues == {1, 2}

\* every value of a setting that is itself a mapping
NestedValues == UNION {[S -> SubValues] : S \in SUBSET SubKeys}

\* every settings dict with at most the one setting "resize", a mapping
NestedDicts == UNION {[S -> NestedValues] : S \in SUBSET {"resize"}}

NestedSections == UNION {[K -> NestedDicts] : K \in SUBSET SectionKeys}

NestedStores == {Metadata("webm-converter" :> s) : s \in NestedSections}

InitNested ==
    /\ \E d \in NestedDicts : Construct("webm-converter", <<d>>)
    /\ store \in NestedStores

NextNested == FirstCall

SpecNested == InitNested /\ [][NextNested]_vars

-----------------------------------------------------------------------------
(* What the claims speak of *)

\* the service's section in the store (empty when missing)
StoredSection == Get(Get(store, "service_configs"), service_name)

HasSection == "service_configs" \in DOMAIN store /\ service_name \in DOMAIN store["service_configs"]

\* the most recent call was a get_config that missed the cache and whose fetch succeeded
FreshGet == last.op = "get_config" /\ last.fetched = 1 /\ last.store_errors = <<>>

\* the tiers holding setting k for id i, lowest priority first
TierNames(section, i) ==
    DOMAIN defaults
    \cup (IF GLOBAL_KEY \in DOMAIN section THEN DOMAIN section[GLOBAL_KEY] ELSE {})
    \cup (IF i \in DOMAIN section THEN DOMAIN section[i] ELSE {})

TierValue(section, i, k) ==
    IF i \in DOMAIN section /\ k \in DOMAIN section[i] THEN section[i][k]
    ELSE IF GLOBAL_KEY \in DOMAIN section /\ k \in DOMAIN section[GLOBAL_KEY]
    THEN section[GLOBAL_KEY][k]
    ELSE defaults[k]

IsTierMerge(r, section, i) ==
    /\ DOMAIN r = TierNames(section, i)
    /\ \A k \in DOMAIN r : r[k] = TierValue(section, i, k)

\* r keeps every name of d, and each setting of r is one of d or one of over
OnlyFrom(r, d, over) ==
    /\ DOMAIN d \subseteq DOMAIN r
    /\ \A k \in DOMAIN r :
          \/ k \in DOMAIN over /\ r[k] = over[k]
          \/ k \in DOMAIN d /\ r[k] = d[k]

-----------------------------------------------------------------------------
(* C1 *)

\* C1: a get_config(entity_id) that misses the cache and whose fetch succeeds
\* returns, for every string id, the flat dict whose names are the union of the
\* names of defaults, of the "*" entry and of the id's entry, each with the value
\* of the highest-priority tier holding it.
C1_MergeEveryId ==
    (FreshGet /\ last.id \in StrIds)
        => /\ last.outcome = "ok"
           /\ IsTierMerge(last.result[1], StoredSection, last.id)

\* the same for the ids Python takes as true (not the empty string)
C1_MergeNonEmptyId ==
    (FreshGet /\ Truthy(last.id))
        => /\ last.outcome = "ok"
           /\ IsTierMerge(last.result[1], StoredSection, last.id)

C1_Witness ==
    /\ FreshGet /\ last.id = "ds1"
    /\ StoredSection = (GLOBAL_KEY :> ("quality" :> 10 @@ "format" :> 10) @@ "ds1" :> ("quality" :> 20))
    /\ defaults = ("quality" :> 20 @@ "format" :> 20)
    /\ last.result = << ("quality" :> 20 @@ "format" :> 10) >>

-----------------------------------------------------------------------------
(* C9 *)

C9_WitnessNoSection ==
    /\ FreshGet /\ ~HasSection /\ defaults # EmptyDict
    /\ last.result = <<defaults>> /\ last.id \in DOMAIN cache

-----------------------------------------------------------------------------
(* Steps *)

\* a step in which a method is called: only SetStore edits the store
Called(op) == store' = store /\ last'.op = op

\* id i has the same cache state before and after the step
SameEntry(i) ==
    /\ i \in DOMAIN cache <=> i \in DOMAIN cache'
    /\ i \in DOMAIN cache => cache'[i] = cache[i]

\* what a fetch made now resolves for id i
MergeNow(i) == _resolve_config(StoredSection, i)

-----------------------------------------------------------------------------
(* C2 *)

\* C2: when a get_config(id) that returned is followed by another get_config(id),
\* with no other call between them, the second returns the same value and the
\* number of store fetches is the same before and after it.
C2_Idempotent ==
    [][ (Called("get_config") /\ last.op = "get_config" /\ last.outcome = "ok"
            /\ last'.id = last.id)
        => /\ last'.outcome = "ok"
           /\ last'.result = last.result
           /\ fetches' = fetches ]_vars

\* two get_config("ds1") in a row, the first fetching, the second not, while the
\* store no longer resolves to the value returned
C2_Witness ==
    /\ last.op = "get_config" /\ prev.op = "get_config"
    /\ last.id = "ds1" /\ prev.id = "ds1" /\ ~prev.had /\ prev.outcome = "ok"
    /\ last.fetched = 0 /\ last.result = <<cache["ds1"]>>
    /\ last.result[1] # MergeNow("ds1")

-----------------------------------------------------------------------------
(* C3 *)

\* C3: as long as no clear_cache(id), clear_cache() or reload_config(id) happens,
\* every get_config(id) returns the value of the first successful resolution of id.
C3_FirstResolution ==
    (last.op = "get_config" /\ last.outcome = "ok" /\ last.id \in StrIds)
        => /\ last.id \in DOMAIN first
           /\ last.result[1] = first[last.id]

-----------------------------------------------------------------------------
(* C4 *)

\* C4: a reload_config(id) whose fetch succeeds makes exactly one store fetch,
\* returns and caches the merge of the store's content at that time, and leaves
\* the cache entry of every other id unchanged.
C4_Reload ==
    [][ (Called("reload_config") /\ last'.store_errors = <<>>)
        => /\ fetches' = fetches + 1
           /\ last'.outcome = "ok"
           /\ last'.result = <<MergeNow(last'.id)>>
           /\ last'.id \in DOMAIN cache' /\ cache'[last'.id] = MergeNow(last'.id)
           /\ \A i \in StrIds \ {last'.id} : SameEntry(i) ]_vars

-----------------------------------------------------------------------------
(* C5 *)

-----------------------------------------------------------------------------
(* C6 *)

\* C6: clear_cache(id) with a string id removes the entry of id if present,
\* changes nothing if absent, and leaves all other entries unchanged;
\* clear_cache() leaves the cache empty.
C6_ClearFrame ==
    [][ Called("clear_cache")
        => IF last'.id = None
           THEN cache' = EmptyDict
           ELSE /\ last'.id \notin DOMAIN cache'
                /\ \A i \in StrIds \ {last'.id} : SameEntry(i) ]_vars

-----------------------------------------------------------------------------
(* C7 *)

\* C7: a get_config(id) whose fetch fails leaves the cache as it was, without
\* an entry for id, and returns nothing; a get_config(id) called right after
\* it makes a store fetch again.
C7_FailedGet ==
    [][ /\ (Called("get_config") /\ last'.store_errors # <<>>)
            => /\ cache' = cache
               /\ last'.id \notin DOMAIN cache'
               /\ last'.result = <<>>
        /\ (Called("get_config") /\ last.op = "get_config" /\ last.store_errors # <<>>
                /\ last'.id = last.id)
            => fetches' = fetches + 1 /\ last'.fetched = 1 ]_vars

\* get_config("ds1") failed, the next one fetched again and succeeded, and the
\* entry of "ds2" was there all along
C7_Witness ==
    /\ last.op = "get_config" /\ prev.op = "get_config"
    /\ last.id = "ds1" /\ prev.id = "ds1" /\ prev.outcome = "NotFoundError"
    /\ last.fetched = 1 /\ last.outcome = "ok"
    /\ "ds2" \in DOMAIN cache /\ fetches = 3

-----------------------------------------------------------------------------
(* C8 *)

\* C8: when the store raises NotFoundError, get_config and reload_config end in
\* that error after exactly one fetch attempt and return no configuration.
C8_NotFound ==
    [][ ((Called("get_config") \/ Called("reload_config")) /\ last'.store_errors # <<>>)
        => /\ last'.store_errors = <<"NotFoundError">>
           /\ last'.outcome = "NotFoundError"
           /\ last'.result = <<>>
           /\ last'.fetched = 1
           /\ fetches' = fetches + 1 ]_vars

\* a reload_config of a cached id ended in NotFoundError
C8_Witness ==
    /\ last.op = "reload_config" /\ last.had
    /\ last.outcome = "NotFoundError" /\ last.fetched = 1 /\ last.result = <<>>

-----------------------------------------------------------------------------
(* C10 *)

\* the transitions of every id's cache state, with the calls that may remove
\* an entry given by removers
Transitions(removers) ==
    \A i \in ArgIds :
        /\ (i \notin DOMAIN cache /\ i \in DOMAIN cache')
              => /\ last'.op \in {"get_config", "reload_config"}
                 /\ last'.id = i /\ last'.outcome = "ok"
        /\ (i \in DOMAIN cache /\ i \notin DOMAIN cache')
              => last'.op \in removers
        /\ (i \in DOMAIN cache /\ i \in DOMAIN cache' /\ cache'[i] # cache[i])
              => last'.op = "reload_config" /\ last'.id = i
        /\ (Called("get_config") /\ i \in DOMAIN cache)
              => i \in DOMAIN cache' /\ cache'[i] = cache[i]

\* C10 as stated: absent to present only on a successful get_config or
\* reload_config for the id, present to absent only on clear_cache, a changed
\* value only via reload_config, and get_config never replaces or removes an entry.
C10_Transitions == [][Transitions({"clear_cache"})]_vars

\* C10 amended: present to absent only on clear_cache or on reload_config
\* (which clears before it fetches); the other transitions as stated.
C10_TransitionsAmended == [][Transitions({"clear_cache", "reload_config"})]_vars

\* a reload_config of a cached id failed and left the id without entry
C10_Witness ==
    /\ last.op = "reload_config" /\ last.id = "ds1" /\ last.had
    /\ last.outcome = "NotFoundError" /\ "ds1" \notin DOMAIN cache
    /\ "ds2" \in DOMAIN cache

-----------------------------------------------------------------------------
(* C11 *)

\* C11: a get_config without dataset id whose fetch succeeds returns defaults
\* overlaid with the "*" entry only: its names are those of defaults and of the
\* "*" entry, each "*" setting wins over the default, and no entry of a dataset
\* adds or changes a setting.
C11_NoEntity ==
    (FreshGet /\ last.id = None)
        => /\ last.outcome = "ok"
           /\ LET r == last.result[1]
                  g == IF GLOBAL_KEY \in DOMAIN StoredSection
                       THEN StoredSection[GLOBAL_KEY] ELSE EmptyDict
              IN  /\ DOMAIN r = DOMAIN defaults \cup DOMAIN g
                  /\ \A k \in DOMAIN r :
                        r[k] = IF k \in DOMAIN g THEN g[k] ELSE defaults[k]

\* defaults {quality}, "*" {quality, format}, "ds1" {quality}, all different:
\* the call without id returned the "*" settings
C11_Witness ==
    /\ FreshGet /\ last.id = None
    /\ defaults = ("quality" :> 20)
    /\ StoredSection = (GLOBAL_KEY :> ("quality" :> 10 @@ "format" :> 20)
                        @@ "ds1" :> ("quality" :> 20 @@ "format" :> 10))
    /\ last.result = << ("quality" :> 10 @@ "format" :> 20) >>

-----------------------------------------------------------------------------
(* C12 *)

\* C12: clear_cache treats every string id alike, the empty string included:
\* clear_cache("") leaves the entry of every other id as it was, and a
\* clear_cache that removes the entry of an id other than its argument is one
\* called without id.
C12_EmptyIdClear ==
    [][ Called("clear_cache")
        => /\ last'.id = "" => \A i \in StrIds \ {""} : SameEntry(i)
           /\ (\E i \in (DOMAIN cache \cap StrIds) \ {last'.id} : i \notin DOMAIN cache')
                 => last'.id = None ]_vars

-----------------------------------------------------------------------------
(* C14 *)

\* C14: a reload_config(id) whose fetch fails, called with id cached, leaves
\* the cache without entry for id and the entries of all other ids unchanged.
C14_FailedReload ==
    [][ (Called("reload_config") /\ last'.store_errors # <<>> /\ last'.id \in DOMAIN cache)
        => /\ last'.id \notin DOMAIN cache'
           /\ \A i \in StrIds \ {last'.id} : SameEntry(i) ]_vars

-----------------------------------------------------------------------------
(* C16 *)

\* C16: a get_config(id), successful or failed, hit or miss, leaves the cache
\* entry of every other id as it was, and on a hit leaves the whole cache as it was.
C16_GetFrame ==
    [][ Called("get_config")
        => /\ \A i \in ArgIds \ {last'.id} : SameEntry(i)
           /\ last'.id \in DOMAIN cache => cache' = cache ]_vars

\* a get_config("ds1") missed and cached its result next to the entries of
\* "ds2" and "", which the calls before it had cached
C16_Witness ==
    /\ last.op = "get_config" /\ last.id = "ds1" /\ ~last.had
    /\ last.fetched = 1 /\ last.outcome = "ok"
    /\ DOMAIN cache = {"ds1", "ds2", ""}

-----------------------------------------------------------------------------
(* C15 *)

\* C15: every cache entry keyed by an id is the three-tier merge of defaults
\* with the section the store held at the most recent successful fetch for
\* that id.  Step by step: a call that fetches successfully for id leaves, as
\* the entry of id, the three-tier merge of the store's section of that moment
\* for id, and the entry of an id appears or changes in no other step.
C15_EntriesAreMerges ==
    [][ \A i \in StrIds :
          /\ ((Called("get_config") \/ Called("reload_config"))
                  /\ last'.id = i /\ last'.fetched = 1 /\ last'.store_errors = <<>>)
                => /\ i \in DOMAIN cache'
                   /\ IsTierMerge(cache'[i], StoredSection, i)
          /\ (i \in DOMAIN cache' /\ (i \notin DOMAIN cache \/ cache'[i] # cache[i]))
                => /\ store' = store
                   /\ last'.id = i /\ last'.fetched = 1 /\ last'.store_errors = <<>>
                   /\ fetches' = fetches + 1 ]_vars

-----------------------------------------------------------------------------
(* C17 *)

-----------------------------------------------------------------------------
(* C13 *)

\* the number of tiers (defaults, "*" entry, entry of id i) that hold setting k
TiersHolding(section, i, k) ==
    Cardinality({t \in {"defaults", "global", "entity"} :
        \/ t = "defaults" /\ k \in DOMAIN defaults
        \/ t = "global" /\ GLOBAL_KEY \in DOMAIN section /\ k \in DOMAIN section[GLOBAL_KEY]
        \/ t = "entity" /\ i \in DOMAIN section /\ k \in DOMAIN section[i]})

\* C13: the merge is shallow.  After a get_config(id) that fetched: a setting
\* whose value is a mapping and that several tiers hold resolves to exactly the
\* mapping of the highest-priority tier holding it, with none of the keys of a
\* lower tier's mapping added.
C13_Shallow ==
    (FreshGet /\ last.id \in StrIds)
        => /\ last.outcome = "ok"
           /\ \A k \in DOMAIN last.result[1] :
                 TiersHolding(StoredSection, last.id, k) >= 2
                    => last.result[1][k] = TierValue(StoredSection, last.id, k)

====
